---- MODULE Spec2Model ----
(***************************************************************************)
(* Model of the timer-board worker (src/src/index.ts): the clock-based     *)
(* timer state engine applyCommand / effectiveElapsed over one Board.      *)
(***************************************************************************)
EXTENDS Integers, Sequences, FiniteSets, TLC

VARIABLES board, last, clock, ranMs, store, reqs, hist

vars == <<board, last, clock, ranMs, store, reqs, hist>>

----------------------------------------------------------------------------
(* Bounds of the model *)

MaxTimers == 2      \* timers on the board at once
NumIds == 2         \* distinct identifiers randomUUID can return
MaxTime == 3        \* Date.now() ranges over 0 .. MaxTime ticks
MaxDur == 3         \* numeric payload durations range over -1 .. MaxDur ticks
MaxSkew == 2        \* ticks a backwards clock may push elapsedMs below zero
BoardMaxTime == 1   \* Date.now() ranges over 0 .. BoardMaxTime in SpecBoard
HttpMaxTimers == 1  \* timers on a stored board in SpecHttp and SpecRace
MaxReq == 2         \* requests in flight at once in SpecRace
Tick == 500         \* milliseconds per tick of the modelled clock

(* Program constants *)

MsPerSec == 1000

----------------------------------------------------------------------------
(* JavaScript values *)

Undefined == "undefined"
Null == <<>>

Ids == 1 .. NumIds
NoId == 0           \* a payload id that is absent or matches no timer
Times == {k * Tick : k \in 0 .. MaxTime}

\* faulty variant: the timestamp is cut to whole seconds
toISOStringSeconds(ms) == <<ms \div MsPerSec, 0>>

\* new Date(now).toISOString(): the instant as (seconds, milliseconds) fields
toISOString(ms) == <<ms \div MsPerSec, ms % MsPerSec>>

\* Date.parse(iso)
DateParse(iso) == iso[1] * MsPerSec + iso[2]

\* truthiness of a string | null
Truthy(s) == s # Null

\* JSON values a client can send as payload.durationMs
JUndef == [t |-> "undefined", n |-> 0, s |-> ""]
JNum(n) == [t |-> "number", n |-> n, s |-> ""]
JStr(s) == [t |-> "string", n |-> 0, s |-> s]

\* the number Infinity, above every finite number of the model
Infinity == 999999999

\* null held where a number is expected (a number field read back from JSON)
NullNumber == -999999999

\* null coerced by + and >=
ToNumber(x) == IF x = NullNumber THEN 0 ELSE x

\* Number(v) || 0
NumberOrZero(v) ==
    IF v.t = "number" THEN v.n
    ELSE IF v.t = "string" /\ v.s = "1000" THEN 1000
    ELSE IF v.t = "string" /\ v.s = "Infinity" THEN Infinity
    ELSE 0

----------------------------------------------------------------------------
(* Board and timers *)

BoardId == "b1"

emptyBoard(boardId) == [boardId |-> boardId, timers |-> <<>>]

effectiveElapsed(timer, nowMs) ==
    IF timer.state = "running" /\ Truthy(timer.startedAt)
    THEN ToNumber(timer.elapsedMs) + (nowMs - DateParse(timer.startedAt))
    ELSE timer.elapsedMs

\* faulty variant: find tests t.id !== id
FindIndexNot(timers, id) ==
    IF \E i \in 1 .. Len(timers) : timers[i].id # id
    THEN CHOOSE i \in 1 .. Len(timers) :
            /\ timers[i].id # id
            /\ \A j \in 1 .. (i - 1) : timers[j].id = id
    ELSE 0

\* board.timers.find((t) => t.id === id): index of the first match, 0 if none
FindIndex(timers, id) ==
    IF \E i \in 1 .. Len(timers) : timers[i].id = id
    THEN CHOOSE i \in 1 .. Len(timers) :
            /\ timers[i].id = id
            /\ \A j \in 1 .. (i - 1) : timers[j].id # id
    ELSE 0

\* faulty variant: filter keeps the matching timers
FilterOutInverted(timers, id) == SelectSeq(timers, LAMBDA t : t.id = id)

\* board.timers.filter((t) => t.id !== id)
FilterOut(timers, id) == SelectSeq(timers, LAMBDA t : t.id # id)

\* body.payload ?? {}
EmptyPayload == [id |-> NoId, command |-> Undefined, label |-> Undefined,
                 durationMs |-> JUndef]
PayloadOf(body) == IF body.hasPayload THEN body.payload ELSE EmptyPayload

\* body?.action
ActionOf(body) == IF body.isNull THEN Undefined ELSE body.action

\* faulty variant: the new timer is put at the front
Unshift(timers, timer) == <<timer>> \o timers

\* board.timers.push(timer)
Push(timers, timer) == Append(timers, timer)

NewTimer(payload, id, nowIso) ==
    [id |-> id,
     label |-> IF payload.label = Undefined \/ payload.label = ""
               THEN "Timer" ELSE payload.label,
     durationMs |-> NumberOrZero(payload.durationMs),
     state |-> "idle",
     createdAt |-> nowIso,
     updatedAt |-> nowIso,
     startedAt |-> Null,
     elapsedMs |-> 0]

\* faulty variant: start restarts a timer that is already running
StartRestarts(timer, command, nowIso) ==
    IF command = "start" /\ timer.state # "finished"
    THEN [timer EXCEPT !.startedAt = nowIso, !.state = "running"]
    ELSE timer

StartStep(timer, command, nowIso) ==
    IF command = "start" /\ (timer.state = "idle" \/ timer.state = "paused")
    THEN [timer EXCEPT !.startedAt = nowIso, !.state = "running"]
    ELSE timer

\* faulty variant: pause leaves startedAt set
PauseKeepsStartedAt(timer, command, now) ==
    IF command = "pause" /\ timer.state = "running" /\ Truthy(timer.startedAt)
    THEN [timer EXCEPT !.elapsedMs = @ + (now - DateParse(timer.startedAt)),
                       !.state = "paused"]
    ELSE timer

\* faulty variant: pause assigns the last interval instead of adding it
PauseOverwritesElapsed(timer, command, now) ==
    IF command = "pause" /\ timer.state = "running" /\ Truthy(timer.startedAt)
    THEN [timer EXCEPT !.elapsedMs = now - DateParse(timer.startedAt),
                       !.startedAt = Null,
                       !.state = "paused"]
    ELSE timer

\* faulty variant: pause does not look at the state
PauseAnyState(timer, command, now) ==
    IF command = "pause"
    THEN [timer EXCEPT !.elapsedMs = IF Truthy(timer.startedAt)
                                     THEN @ + (now - DateParse(timer.startedAt))
                                     ELSE @,
                       !.startedAt = Null,
                       !.state = "paused"]
    ELSE timer

PauseStep(timer, command, now) ==
    IF command = "pause" /\ timer.state = "running" /\ Truthy(timer.startedAt)
    THEN [timer EXCEPT !.elapsedMs = ToNumber(@) + (now - DateParse(timer.startedAt)),
                       !.startedAt = Null,
                       !.state = "paused"]
    ELSE timer

\* faulty variant: reset keeps the accumulated time
ResetKeepsElapsed(timer, command) ==
    IF command = "reset"
    THEN [timer EXCEPT !.startedAt = Null, !.state = "idle"]
    ELSE timer

ResetStep(timer, command) ==
    IF command = "reset"
    THEN [timer EXCEPT !.elapsedMs = 0, !.startedAt = Null, !.state = "idle"]
    ELSE timer

\* faulty variant: auto-finish does not clamp elapsedMs
AutoFinishNoClamp(timer, now) ==
    IF effectiveElapsed(timer, now) >= timer.durationMs
    THEN [timer EXCEPT !.state = "finished", !.startedAt = Null]
    ELSE timer

AutoFinish(timer, now) ==
    IF ToNumber(effectiveElapsed(timer, now)) >= ToNumber(timer.durationMs)
    THEN [timer EXCEPT !.state = "finished",
                       !.startedAt = Null,
                       !.elapsedMs = timer.durationMs]
    ELSE timer

\* faulty variant: updatedAt is not refreshed
CommandTimerNoTouch(timer, command, now) ==
    LET nowIso == toISOString(now)
        t1 == StartStep(timer, command, nowIso)
        t2 == PauseStep(t1, command, now)
        t3 == ResetStep(t2, command)
    IN AutoFinish(t3, now)

CommandTimer(timer, command, now) ==
    LET nowIso == toISOString(now)
        t1 == StartStep(timer, command, nowIso)
        t2 == PauseStep(t1, command, now)
        t3 == ResetStep(t2, command)
        t4 == AutoFinish(t3, now)
    IN [t4 EXCEPT !.updatedAt = nowIso]

\* applyCommand(board, body) with Date.now() = now and randomUUID() = uuid
applyCommand(b, body, now, uuid) ==
    LET action == ActionOf(body)
        payload == PayloadOf(body)
        k == FindIndex(b.timers, payload.id)
    IN CASE action = "create" ->
              [b EXCEPT !.timers = Push(@, NewTimer(payload, uuid, toISOString(now)))]
         [] action = "command" ->
              IF k = 0 THEN b
              ELSE [b EXCEPT !.timers[k] = CommandTimer(@, payload.command, now)]
         [] action = "delete" ->
              [b EXCEPT !.timers = FilterOut(@, payload.id)]
         [] OTHER -> b

----------------------------------------------------------------------------
(* Request bodies a client can send *)

Labels == {Undefined, "", "Tea"}
Durations == {JUndef, JStr("abc"), JStr("1000")}
                \cup {JNum(k * Tick) : k \in (-1) .. MaxDur}
Commands == {"start", "pause", "reset", "bogus", Undefined}
PayloadIds == Ids \cup {NoId}

Body(action, payload) ==
    [isNull |-> FALSE, action |-> action, hasPayload |-> TRUE, payload |-> payload]
NoPayload(action) ==
    [isNull |-> FALSE, action |-> action, hasPayload |-> FALSE, payload |-> EmptyPayload]
NullBody ==
    [isNull |-> TRUE, action |-> Undefined, hasPayload |-> FALSE, payload |-> EmptyPayload]

CreateBodies(L, D) ==
    {Body("create", [EmptyPayload EXCEPT !.label = l, !.durationMs = d]) :
        l \in L, d \in D} \cup {NoPayload("create")}
CommandBodies ==
    {Body("command", [EmptyPayload EXCEPT !.id = id, !.command = c]) :
        id \in PayloadIds, c \in Commands} \cup {NoPayload("command")}
DeleteBodies ==
    {Body("delete", [EmptyPayload EXCEPT !.id = id]) : id \in PayloadIds}
        \cup {NoPayload("delete")}
OtherBodies ==
    {Body(a, EmptyPayload) : a \in {"bogus", Undefined}}
        \cup {NoPayload(a) : a \in {"bogus", Undefined}} \cup {NullBody}

TimerIds(b) == {b.timers[i].id : i \in 1 .. Len(b.timers)}

\* randomUUID() never returns an identifier that is already on the board
FreshIds(b) == Ids \ TimerIds(b)

----------------------------------------------------------------------------
(* History of the last call: what was asked, when, and the timer it found *)

NoCall ==
    [action |-> "none", isNull |-> FALSE, hasPayload |-> FALSE,
     id |-> NoId, command |-> Undefined, idx |-> 0, now |-> 0, before |-> <<>>]

CallOf(body, now, b) ==
    LET action == ActionOf(body)
        k == IF action \in {"command", "delete"}
             THEN FindIndex(b.timers, PayloadOf(body).id) ELSE 0
    IN [action |-> action,
        isNull |-> body.isNull,
        hasPayload |-> body.hasPayload,
        id |-> IF action \in {"command", "delete"} THEN PayloadOf(body).id ELSE NoId,
        command |-> IF action = "command" /\ k # 0
                    THEN PayloadOf(body).command ELSE Undefined,
        idx |-> k,
        now |-> IF action = "create" \/ (action = "command" /\ k # 0)
                THEN now ELSE 0,
        before |-> IF k # 0 THEN <<b.timers[k]>> ELSE <<>>]

\* the model keeps elapsedMs above -MaxSkew ticks and the board at MaxTimers
Bounded(b) ==
    /\ Len(b.timers) <= MaxTimers
    /\ \A i \in 1 .. Len(b.timers) :
          ToNumber(b.timers[i].elapsedMs) >= -(MaxSkew * Tick)

\* one POST body handed to applyCommand at instant now
Apply(body, now, uuid) ==
    /\ Bounded(applyCommand(board, body, now, uuid))
    /\ board' = applyCommand(board, body, now, uuid)
    /\ last' = CallOf(body, now, board)

\* the calls of one kind, with bodies drawn from B and instants from T
Calls(B, T) ==
    \E body \in B, now \in T :
        IF ActionOf(body) = "create"
        THEN \E uuid \in FreshIds(board) : Apply(body, now, uuid)
        ELSE Apply(body, now, NoId)

----------------------------------------------------------------------------
(* Spec: the life of one timer at a time, at any command times *)

\* the engine specifications run applyCommand alone, without a store
NoStore == <<>>

Init ==
    /\ board = emptyBoard(BoardId)
    /\ last = NoCall
    /\ clock = 0
    /\ ranMs = <<>>
    /\ store = NoStore
    /\ reqs = <<>>
    /\ hist = <<>>

Frozen == UNCHANGED <<clock, ranMs, store, reqs, hist>>

Create ==
    /\ board.timers = <<>>
    /\ Calls(CreateBodies(Labels, Durations), Times)
    /\ Frozen

Command == Calls(CommandBodies, Times) /\ Frozen

Delete == Calls(DeleteBodies, Times) /\ Frozen

Other == Calls(OtherBodies, Times) /\ Frozen

Next ==
    \/ Create
    \/ Command
    \/ Delete
    \/ Other

Spec == Init /\ [][Next]_vars

----------------------------------------------------------------------------
(* SpecBoard: several timers on the board, over a short clock *)

BoardTimes == {k * Tick : k \in 0 .. BoardMaxTime}
BoardLabels == {"Tea"}
BoardDurations == {JNum(Tick)}

BoardCreate == Calls(CreateBodies(BoardLabels, BoardDurations), BoardTimes) /\ Frozen

BoardCommand == Calls(CommandBodies, BoardTimes) /\ Frozen

BoardDelete == Calls(DeleteBodies, BoardTimes) /\ Frozen

BoardOther == Calls(OtherBodies, BoardTimes) /\ Frozen

NextBoard ==
    \/ BoardCreate
    \/ BoardCommand
    \/ BoardDelete
    \/ BoardOther

SpecBoard == Init /\ [][NextBoard]_vars

----------------------------------------------------------------------------
(* SpecMono: one timer at a time, command times that never go backwards.   *)
(* clock is the instant of the last call; ranMs[id] is the time the timer  *)
(* has spent in state running since it was created or last reset, summed   *)
(* call by call.                                                            *)

TimerById(b, id) == b.timers[FindIndex(b.timers, id)]

RanAfter(b, call, nowMs) ==
    [id \in TimerIds(b) |->
        IF call.action = "create" /\ id \notin TimerIds(board) THEN 0
        ELSE IF call.command = "reset" /\ call.before[1].id = id THEN 0
        ELSE ranMs[id] + (IF TimerById(board, id).state = "running"
                          THEN nowMs - clock ELSE 0)]

MonoCalls(B) ==
    \E body \in B, now \in Times :
        /\ now >= clock
        /\ clock' = now
        /\ IF ActionOf(body) = "create"
           THEN \E uuid \in FreshIds(board) : Apply(body, now, uuid)
           ELSE Apply(body, now, NoId)
        /\ ranMs' = RanAfter(board', last', now)
        /\ UNCHANGED <<store, reqs, hist>>

MonoCreate ==
    /\ board.timers = <<>>
    /\ MonoCalls(CreateBodies(Labels, Durations))

MonoCommand == MonoCalls(CommandBodies)

MonoDelete == MonoCalls(DeleteBodies)

MonoOther == MonoCalls(OtherBodies)

NextMono ==
    \/ MonoCreate
    \/ MonoCommand
    \/ MonoDelete
    \/ MonoOther

SpecMono == Init /\ [][NextMono]_vars

----------------------------------------------------------------------------
(* The worker: fetch, loadBoard, saveBoard over the key-value store        *)
(* (src/unnamed/part_001).  A request holds one slot of reqs from its      *)
(* arrival to its response; every await is a step of its own.               *)

BoardIds == {"b1", "b2"}

boardKey(boardId) == <<"board:", boardId>>

\* values of the store: no value, a text that is not JSON, a JSON text
AbsentRaw == [kind |-> "absent", board |-> emptyBoard("")]
GarbageRaw == [kind |-> "garbage", board |-> emptyBoard("")]

\* JSON.stringify of a number: a number that is not finite is written as null
JsonNumber(n) == IF n = Infinity THEN NullNumber ELSE n

JsonTimer(t) ==
    [t EXCEPT !.durationMs = JsonNumber(@), !.elapsedMs = JsonNumber(@)]

JSONstringify(b) ==
    [kind |-> "json",
     board |-> [boardId |-> b.boardId,
                timers |-> [i \in 1 .. Len(b.timers) |-> JsonTimer(b.timers[i])]]]

\* JSON.parse(raw), which throws unless raw is a JSON text
Parses(raw) == raw.kind = "json"
JSONparse(raw) == raw.board

\* faulty variant: a value that does not parse is returned as it is
loadBoardUnguarded(st, boardId) ==
    LET raw == st[boardKey(boardId)]
    IN IF raw.kind = "absent" THEN emptyBoard(boardId) ELSE raw.board

loadBoard(st, boardId) ==
    LET raw == st[boardKey(boardId)]
    IN IF raw.kind = "absent" THEN emptyBoard(boardId)
       ELSE IF Parses(raw) THEN JSONparse(raw)
       ELSE emptyBoard(boardId)

\* faulty variant: put only where the key holds no value yet
saveBoardIfAbsent(st, boardId, b) ==
    IF st[boardKey(boardId)].kind = "absent"
    THEN [st EXCEPT ![boardKey(boardId)] = JSONstringify(b)]
    ELSE st

saveBoard(st, boardId, b) == [st EXCEPT ![boardKey(boardId)] = JSONstringify(b)]

NoResponse == [status |-> 0, body |-> AbsentRaw]

json(data) == [status |-> 200, body |-> JSONstringify(data)]

\* faulty variant: the GET branch settles the board it read and writes it back
fetchGetWritesBack(st, boardId) ==
    [store |-> saveBoard(st, boardId, loadBoard(st, boardId)),
     response |-> json(loadBoard(st, boardId))]

\* the GET branch of fetch: the store it leaves and the response it returns
fetchGet(st, boardId) ==
    [store |-> st, response |-> json(loadBoard(st, boardId))]

\* faulty variant: the body is not parsed before the board is loaded
AfterBodyUnchecked(valid) == "load"

\* await request.json(): an invalid body rejects and ends the request
AfterBody(valid) == IF valid THEN "load" ELSE "failed"

FreeReq ==
    [pc |-> "free", method |-> "NONE", boardId |-> "", valid |-> TRUE,
     body |-> NullBody, board |-> emptyBoard(""), saved |-> FALSE,
     response |-> NoResponse]

HttpTimes == BoardTimes
HttpDurations == {JNum(Tick), JStr("Infinity")}
HttpBodies ==
    {Body("create", [EmptyPayload EXCEPT !.label = "Tea", !.durationMs = d]) :
        d \in HttpDurations}
      \cup {Body("command", [EmptyPayload EXCEPT !.id = id, !.command = c]) :
              id \in Ids, c \in {"start", "pause"}}
      \cup {Body("delete", [EmptyPayload EXCEPT !.id = id]) : id \in Ids}
      \cup {NullBody}

HttpBounded(b) ==
    /\ Len(b.timers) <= HttpMaxTimers
    /\ Bounded(b)

\* hist.expected: the commands of the POSTs so far, applied in the order the
\* requests loaded, starting from the empty board; hist.posted: the body of
\* the last POST response
NoHist ==
    [expected |-> [b \in BoardIds |-> emptyBoard(b)],
     posted |-> [b \in BoardIds |-> AbsentRaw]]

InitHttp ==
    /\ board = emptyBoard(BoardId)
    /\ last = NoCall
    /\ clock = 0
    /\ ranMs = <<>>
    /\ store \in [{boardKey(b) : b \in BoardIds} -> {AbsentRaw, GarbageRaw}]
    /\ reqs = [r \in 1 .. MaxReq |-> FreeReq]
    /\ hist = NoHist

EngineIdle == UNCHANGED <<board, last, ranMs>>

\* crypto.randomUUID(): an id that no stored or in-flight board holds
UsedIds ==
    UNION {TimerIds(IF Parses(store[k]) THEN JSONparse(store[k]) ELSE emptyBoard("")) :
              k \in DOMAIN store}
      \cup UNION {TimerIds(reqs[r].board) : r \in DOMAIN reqs}

\* a request arrives: GET, POST with a JSON body, POST with a body that is not JSON
Arrive(S, B, Bodies) ==
    \E r \in S, b \in B :
        /\ reqs[r].pc = "free"
        /\ \/ reqs' = [reqs EXCEPT ![r] =
                          [FreeReq EXCEPT !.pc = "get", !.method = "GET", !.boardId = b]]
           \/ \E body \in Bodies :
                 reqs' = [reqs EXCEPT ![r] =
                             [FreeReq EXCEPT !.pc = "body", !.method = "POST",
                                             !.boardId = b, !.body = body]]
           \/ reqs' = [reqs EXCEPT ![r] =
                          [FreeReq EXCEPT !.pc = "body", !.method = "POST",
                                          !.boardId = b, !.valid = FALSE]]
        /\ UNCHANGED <<store, clock, hist>>
        /\ EngineIdle

\* GET: const board = await loadBoard(env, boardId); return json(board)
Get(S) ==
    \E r \in S :
        /\ reqs[r].pc = "get"
        /\ store' = fetchGet(store, reqs[r].boardId).store
        /\ reqs' = [reqs EXCEPT ![r].pc = "done",
                                ![r].response = fetchGet(store, reqs[r].boardId).response]
        /\ UNCHANGED <<clock, hist>>
        /\ EngineIdle

\* POST: const body = await request.json()
ReadBody(S) ==
    \E r \in S :
        /\ reqs[r].pc = "body"
        /\ reqs' = [reqs EXCEPT ![r].pc = AfterBody(reqs[r].valid)]
        /\ UNCHANGED <<store, clock, hist>>
        /\ EngineIdle

\* POST: const board = await loadBoard(env, boardId);
\*       const updated = applyCommand(board, body)
LoadAndApply(S) ==
    \E r \in S, now \in HttpTimes :
        LET b == reqs[r].boardId
            loaded == loadBoard(store, b)
        IN /\ reqs[r].pc = "load"
           /\ now >= clock
           /\ clock' = now
           /\ \E uuid \in IF ActionOf(reqs[r].body) = "create"
                          THEN Ids \ UsedIds ELSE {NoId} :
                 LET updated == applyCommand(loaded, reqs[r].body, now, uuid)
                 IN /\ HttpBounded(updated)
                    /\ reqs' = [reqs EXCEPT ![r].pc = "save",
                                            ![r].board = updated]
                    /\ Len(applyCommand(hist.expected[b], reqs[r].body, now, uuid).timers)
                          <= MaxTimers
                    /\ hist' = [hist EXCEPT !.expected[b] =
                                   applyCommand(@, reqs[r].body, now, uuid)]
           /\ UNCHANGED store
           /\ EngineIdle

\* POST: await saveBoard(env, boardId, updated)
Save(S) ==
    \E r \in S :
        /\ reqs[r].pc = "save"
        /\ store' = saveBoard(store, reqs[r].boardId, reqs[r].board)
        /\ reqs' = [reqs EXCEPT ![r].saved = TRUE, ![r].pc = "respond"]
        /\ UNCHANGED <<clock, hist>>
        /\ EngineIdle

\* POST: return json(updated)
Respond(S) ==
    \E r \in S :
        /\ reqs[r].pc = "respond"
        /\ reqs' = [reqs EXCEPT ![r].pc = "done",
                                ![r].response = json(reqs[r].board)]
        /\ hist' = [hist EXCEPT !.posted[reqs[r].boardId] = json(reqs[r].board).body]
        /\ UNCHANGED <<store, clock>>
        /\ EngineIdle

\* the response has been delivered, or the failure reported: the request is over
Finish(S) ==
    \E r \in S :
        /\ reqs[r].pc \in {"failed", "done"}
        /\ reqs' = [reqs EXCEPT ![r] = FreeReq]
        /\ UNCHANGED <<store, clock, hist>>
        /\ EngineIdle

----------------------------------------------------------------------------
(* SpecHttp: requests that do not overlap, on two boards *)

OneAtATime == {1}

HttpArrive == Arrive(OneAtATime, BoardIds, HttpBodies)
HttpGet == Get(OneAtATime)
HttpReadBody == ReadBody(OneAtATime)
HttpLoadAndApply == LoadAndApply(OneAtATime)
HttpSave == Save(OneAtATime)
HttpRespond == Respond(OneAtATime)
HttpFinish == Finish(OneAtATime)

NextHttp ==
    \/ HttpArrive
    \/ HttpGet
    \/ HttpReadBody
    \/ HttpLoadAndApply
    \/ HttpSave
    \/ HttpRespond
    \/ HttpFinish

SpecHttp == InitHttp /\ [][NextHttp]_vars

----------------------------------------------------------------------------
(* SpecRace: up to MaxReq requests in flight at once, on one board *)

InFlight == 1 .. MaxReq
RaceBoards == {"b1"}

RaceBodies ==
    {Body("create", [EmptyPayload EXCEPT !.label = "Tea", !.durationMs = JNum(Tick)]),
     Body("command", [EmptyPayload EXCEPT !.id = 1, !.command = "start"])}
      \cup {Body("delete", [EmptyPayload EXCEPT !.id = id]) : id \in Ids}

InitRace ==
    /\ board = emptyBoard(BoardId)
    /\ last = NoCall
    /\ clock = 0
    /\ ranMs = <<>>
    /\ store \in [{boardKey(b) : b \in RaceBoards} -> {AbsentRaw, GarbageRaw}]
    /\ reqs = [r \in 1 .. MaxReq |-> FreeReq]
    /\ hist = NoHist

RaceArrive == Arrive(InFlight, RaceBoards, RaceBodies)
RaceGet == Get(InFlight)
RaceReadBody == ReadBody(InFlight)
RaceLoadAndApply == LoadAndApply(InFlight)
RaceSave == Save(InFlight)
RaceRespond == Respond(InFlight)
RaceFinish == Finish(InFlight)

NextRace ==
    \/ RaceArrive
    \/ RaceGet
    \/ RaceReadBody
    \/ RaceLoadAndApply
    \/ RaceSave
    \/ RaceRespond
    \/ RaceFinish

SpecRace == InitRace /\ [][NextRace]_vars

----------------------------------------------------------------------------
(* Reading the last call *)

Timers == board.timers
TimerIdx == 1 .. Len(board.timers)

\* the last call was a command action that found its timer
HitCommand == last.action = "command" /\ last.idx # 0
\* that timer before the call and after it
Before == last.before[1]
Target == board.timers[last.idx]

----------------------------------------------------------------------------
(* C1: in every reachable board, at any command times, a timer is running  *)
(* if and only if its startedAt is non-null.                                *)
C1_RunningIffStarted ==
    \A i \in TimerIdx : (Timers[i].state = "running") <=> (Timers[i].startedAt # Null)

\* a pause has just taken a running timer to paused and cleared startedAt
C1_Witness ==
    /\ HitCommand /\ last.command = "pause"
    /\ Before.state = "running" /\ Before.startedAt # Null
    /\ Target.state = "paused" /\ Target.startedAt = Null

(* C2: right after a command that found its timer, at the instant now of   *)
(* that call, effectiveElapsed(timer, now) <= durationMs or the timer is   *)
(* finished with elapsedMs = durationMs; and every finished timer has      *)
(* elapsedMs = durationMs.                                                  *)
C2_SettledOrFinished ==
    /\ HitCommand =>
          \/ effectiveElapsed(Target, last.now) <= Target.durationMs
          \/ Target.state = "finished" /\ Target.elapsedMs = Target.durationMs
    /\ \A i \in TimerIdx :
          Timers[i].state = "finished" => Timers[i].elapsedMs = Timers[i].durationMs

\* a command has just found a running timer strictly past its duration and clamped it
C2_Witness ==
    /\ HitCommand
    /\ Before.state = "running"
    /\ effectiveElapsed(Before, last.now) > Before.durationMs
    /\ Before.durationMs > 0
    /\ Target.state = "finished" /\ Target.elapsedMs = Target.durationMs

(* C3 as stated: a reset on an existing timer always leaves it idle with   *)
(* elapsedMs = 0 and startedAt = null, for every durationMs, 0 included.    *)
C3_ResetAlwaysIdle ==
    HitCommand /\ last.command = "reset" =>
        Target.state = "idle" /\ Target.elapsedMs = 0 /\ Target.startedAt = Null

(* C3 amended: a reset on an existing timer with durationMs > 0 leaves it  *)
(* idle with elapsedMs = 0 and startedAt = null whatever its prior state;  *)
(* with durationMs <= 0 the auto-finish check that follows makes it        *)
(* finished with elapsedMs = durationMs and startedAt = null.               *)
C3_ResetThenAutoFinish ==
    HitCommand /\ last.command = "reset" =>
        /\ Target.startedAt = Null
        /\ Before.durationMs > 0 => Target.state = "idle" /\ Target.elapsedMs = 0
        /\ Before.durationMs <= 0 =>
              Target.state = "finished" /\ Target.elapsedMs = Target.durationMs

\* a reset has just rewound a paused timer that had accumulated time
C3_Witness ==
    /\ HitCommand /\ last.command = "reset"
    /\ Before.state = "paused" /\ Before.elapsedMs > 0
    /\ Target.state = "idle" /\ Target.elapsedMs = 0

(* C4 as stated: a start on a timer that an earlier start left running     *)
(* leaves it running with the same startedAt, whatever time has passed.    *)
C4_SecondStartKeepsRunning ==
    HitCommand /\ last.command = "start" /\ Before.state = "running" =>
        Target.state = "running" /\ Target.startedAt = Before.startedAt

(* C4 amended: a start at instant now on a timer that an earlier start     *)
(* left running never moves startedAt: while elapsedMs + (now - startedAt) *)
(* < durationMs the timer stays running with startedAt and elapsedMs       *)
(* unchanged; otherwise the auto-finish check makes it finished with       *)
(* startedAt = null and elapsedMs = durationMs.                             *)
C4_SecondStartNoRestart ==
    HitCommand /\ last.command = "start" /\ Before.state = "running" =>
        IF effectiveElapsed(Before, last.now) < Before.durationMs
        THEN /\ Target.state = "running"
             /\ Target.startedAt = Before.startedAt
             /\ Target.elapsedMs = Before.elapsedMs
        ELSE /\ Target.state = "finished"
             /\ Target.startedAt = Null
             /\ Target.elapsedMs = Target.durationMs

\* a second start, later than the first, has left the timer running
C4_Witness ==
    /\ HitCommand /\ last.command = "start" /\ Before.state = "running"
    /\ last.now > DateParse(Before.startedAt)
    /\ Target.state = "running" /\ Target.startedAt = Before.startedAt

----------------------------------------------------------------------------
(* C5: a timer is never finished right after the create that made it; a   *)
(* finished timer stays finished, with elapsedMs = durationMs and           *)
(* startedAt = null, across every call except a reset on it (or its own    *)
(* delete), whatever the call does to other timers.                         *)
C5_Step ==
    /\ last'.action = "create" =>
          /\ Len(board'.timers) = Len(board.timers) + 1
          /\ board'.timers[Len(board'.timers)].state # "finished"
    /\ \A i \in 1 .. Len(board.timers) :
          board.timers[i].state = "finished" =>
              \/ last'.action = "command" /\ last'.command = "reset"
                    /\ last'.id = board.timers[i].id
              \/ last'.action = "delete" /\ last'.id = board.timers[i].id
              \/ \E j \in 1 .. Len(board'.timers) :
                    /\ board'.timers[j].id = board.timers[i].id
                    /\ board'.timers[j].state = "finished"
                    /\ board'.timers[j].elapsedMs = board'.timers[j].durationMs
                    /\ board'.timers[j].startedAt = Null
    /\ \A i \in 1 .. Len(board.timers) :
          /\ board.timers[i].state = "finished"
          /\ board.timers[i].durationMs > 0
          /\ last'.action = "command" /\ last'.command = "reset"
          /\ last'.id = board.timers[i].id
          => board'.timers[i].state = "idle"

C5_FinishedUntilReset == [][C5_Step]_vars

\* a start has just found a finished timer, beside another timer, and left it finished
C5_Witness ==
    /\ HitCommand /\ last.command = "start"
    /\ Before.state = "finished"
    /\ Target.state = "finished"
    /\ Len(Timers) = 2

(* C6 as stated: a call that changes a timer's state takes it idle ->      *)
(* running, paused -> running, running -> paused, running -> finished,     *)
(* paused -> finished, or from any state to idle, and nothing else.         *)
ListedTransitions ==
    {<<"idle", "running">>, <<"paused", "running">>, <<"running", "paused">>,
     <<"running", "finished">>, <<"paused", "finished">>}
        \cup {<<s, "idle">> : s \in {"running", "paused", "finished"}}

C6_OnlyListedTransitions ==
    HitCommand /\ Before.state # Target.state =>
        <<Before.state, Target.state>> \in ListedTransitions

(* C6 amended: the changes of state across one call are the listed ones    *)
(* and idle -> finished, which happens exactly when a command (of any      *)
(* sub-command) finds an idle timer whose durationMs is <= 0.               *)
C6_TransitionsWithIdleFinish ==
    HitCommand =>
        /\ Before.state # Target.state =>
              <<Before.state, Target.state>>
                  \in ListedTransitions \cup {<<"idle", "finished">>}
        /\ Before.state = "idle" =>
              (Target.state = "finished" <=> Before.durationMs <= 0)

\* a start has just taken an idle zero-duration timer straight to finished
C6_Witness ==
    /\ HitCommand /\ last.command = "start"
    /\ Before.state = "idle" /\ Before.durationMs = 0
    /\ Target.state = "finished"

(* C7 as stated: a pause at now on a running timer ends finished with      *)
(* elapsedMs = durationMs when elapsedMs + (now - startedAt) >= durationMs *)
(* and otherwise paused with elapsedMs increased by now - startedAt, with  *)
(* startedAt = null in both cases; a pause on a timer that is not running  *)
(* changes neither its state nor its elapsedMs.                             *)
PauseOnRunning ==
    LET total == Before.elapsedMs + (last.now - DateParse(Before.startedAt))
    IN /\ Target.startedAt = Null
       /\ IF total >= Before.durationMs
          THEN Target.state = "finished" /\ Target.elapsedMs = Target.durationMs
          ELSE Target.state = "paused" /\ Target.elapsedMs = total

C7_PauseAsStated ==
    HitCommand /\ last.command = "pause" =>
        IF Before.state = "running"
        THEN PauseOnRunning
        ELSE Target.state = Before.state /\ Target.elapsedMs = Before.elapsedMs

(* C7 amended: as stated, except that a pause on an idle timer whose       *)
(* durationMs is <= 0 auto-finishes it (state finished, elapsedMs =        *)
(* durationMs); every other pause on a timer that is not running changes   *)
(* neither its state nor its elapsedMs.                                     *)
C7_PauseWithIdleFinish ==
    HitCommand /\ last.command = "pause" =>
        IF Before.state = "running"
        THEN PauseOnRunning
        ELSE IF Before.state = "idle" /\ Before.durationMs <= 0
        THEN Target.state = "finished" /\ Target.elapsedMs = Target.durationMs
        ELSE Target.state = Before.state /\ Target.elapsedMs = Before.elapsedMs

\* a pause has just added a second running interval to a timer's elapsedMs
C7_Witness ==
    /\ HitCommand /\ last.command = "pause"
    /\ Before.state = "running" /\ Before.elapsedMs > 0
    /\ last.now > DateParse(Before.startedAt)
    /\ Target.state = "paused"
    /\ Target.elapsedMs = Before.elapsedMs + (last.now - DateParse(Before.startedAt))

(* C8: with command times that never go backwards, elapsedMs counts only   *)
(* the time spent running: a paused timer's elapsedMs is the total length  *)
(* of its running intervals (ranMs), a running timer's elapsedMs plus its  *)
(* current interval is that total, and a command finds the timer finished  *)
(* with elapsedMs = durationMs exactly when the total it observes is >=    *)
(* durationMs.                                                              *)
C8_ElapsedIsRunningTime ==
    /\ \A i \in TimerIdx :
          LET t == Timers[i]
              ran == ranMs[t.id]
          IN /\ t.state = "idle" => t.elapsedMs = 0 /\ ran = 0
             /\ t.state = "paused" => t.elapsedMs = ran /\ ran < t.durationMs
             /\ t.state = "running" =>
                   t.elapsedMs + (clock - DateParse(t.startedAt)) = ran
             /\ t.state = "finished" =>
                   t.elapsedMs = t.durationMs /\ ran >= t.durationMs
    /\ HitCommand =>
          /\ last.now = clock
          /\ Target.state = "finished" <=> ranMs[Target.id] >= Target.durationMs

\* a timer that ran, sat paused and ran again has just been paused: its
\* elapsedMs is the sum of the two running intervals, less than the time
\* since its first start
C8_Witness ==
    /\ HitCommand /\ last.command = "pause"
    /\ Before.state = "running" /\ Before.elapsedMs > 0
    /\ last.now > DateParse(Before.startedAt)
    /\ DateParse(Before.startedAt) - DateParse(Before.createdAt) > Before.elapsedMs
    /\ Target.state = "paused"
    /\ Target.elapsedMs = ranMs[Target.id]
    /\ Target.elapsedMs < last.now - DateParse(Target.createdAt)

(* C9 as stated: the timers sequence comes back identical when the action  *)
(* is missing or unrecognized, when a command or delete names no timer on  *)
(* the board, and when the payload is missing.                              *)
KnownActions == {"create", "command", "delete"}

NoOpCall(call, b) ==
    \/ call.action \notin KnownActions
    \/ call.action \in {"command", "delete"} /\ call.id \notin TimerIds(b)

C9_NoOpIncludingNoPayload ==
    [][NoOpCall(last', board) \/ ~last'.hasPayload => board' = board]_vars

(* C9 amended: the timers sequence comes back identical when the action is *)
(* missing or unrecognized, when a command or delete names no timer on the *)
(* board, and when the payload of a command or delete is missing; a create *)
(* whose payload is missing still appends a timer, with label "Timer" and  *)
(* durationMs 0.                                                            *)
C9_Step ==
    /\ NoOpCall(last', board) => board' = board
    /\ ~last'.hasPayload /\ last'.action # "create" => board' = board
    /\ ~last'.hasPayload /\ last'.action = "create" =>
          /\ Len(board'.timers) = Len(board.timers) + 1
          /\ SubSeq(board'.timers, 1, Len(board.timers)) = board.timers
          /\ board'.timers[Len(board'.timers)].label = "Timer"
          /\ board'.timers[Len(board'.timers)].durationMs = 0

C9_NoOpCases == [][C9_Step]_vars

\* a delete naming no timer has just left a board of two timers as it was
C9_Witness ==
    /\ last.action = "delete" /\ last.hasPayload
    /\ last.id \notin TimerIds(board)
    /\ Len(Timers) = 2
    /\ Timers[1].state = "running"

(* C10: create appends exactly one timer at the end (idle, elapsedMs 0,    *)
(* startedAt null, createdAt = updatedAt = now) and leaves the others as   *)
(* they were; delete removes the timer with the matching id and leaves the *)
(* rest unchanged in the same order; no other call changes the order.       *)
Without(timers, k) == SubSeq(timers, 1, k - 1) \o SubSeq(timers, k + 1, Len(timers))

IdsOf(timers) == [i \in 1 .. Len(timers) |-> timers[i].id]

C10_Step ==
    /\ last'.action = "create" =>
          /\ Len(board'.timers) = Len(board.timers) + 1
          /\ SubSeq(board'.timers, 1, Len(board.timers)) = board.timers
          /\ LET t == board'.timers[Len(board'.timers)]
             IN /\ t.state = "idle" /\ t.elapsedMs = 0 /\ t.startedAt = Null
                /\ t.createdAt = toISOString(last'.now)
                /\ t.updatedAt = toISOString(last'.now)
                /\ t.id \notin TimerIds(board)
    /\ last'.action = "delete" =>
          IF \E k \in 1 .. Len(board.timers) : board.timers[k].id = last'.id
          THEN \E k \in 1 .. Len(board.timers) :
                  /\ board.timers[k].id = last'.id
                  /\ board'.timers = Without(board.timers, k)
          ELSE board'.timers = board.timers
    /\ last'.action \notin {"create", "delete"} =>
          IdsOf(board'.timers) = IdsOf(board.timers)

C14_DurationNonNegative ==
    \A i \in TimerIdx : Timers[i].durationMs >= 0 /\ Timers[i].elapsedMs >= 0

(* C16: a command whose sub-command is not start, pause or reset changes   *)
(* only updatedAt of the timer it finds, unless effectiveElapsed(timer,    *)
(* now) >= durationMs, in which case the timer also becomes finished with  *)
(* elapsedMs = durationMs and startedAt = null; and every command that     *)
(* finds its timer sets updatedAt to now.                                   *)
C16_UnknownCommandOnlyTouches ==
    HitCommand =>
        /\ Target.updatedAt = toISOString(last.now)
        /\ last.command \notin {"start", "pause", "reset"} =>
              IF effectiveElapsed(Before, last.now) >= Before.durationMs
              THEN Target = [Before EXCEPT !.state = "finished",
                                           !.startedAt = Null,
                                           !.elapsedMs = Before.durationMs,
                                           !.updatedAt = toISOString(last.now)]
              ELSE Target = [Before EXCEPT !.updatedAt = toISOString(last.now)]

\* an unrecognized sub-command has just found a running timer, later than its
\* last update, and changed nothing but updatedAt
C16_Witness ==
    /\ HitCommand /\ last.command = "bogus"
    /\ Before.state = "running"
    /\ Target.state = "running"
    /\ Target.updatedAt # Before.updatedAt
    /\ Target = [Before EXCEPT !.updatedAt = toISOString(last.now)]

(* C17: a command changes at most the first timer whose id equals the      *)
(* payload id; every other timer, the length and the order of the sequence *)
(* stay as they were, and on the timer it finds id, label, durationMs and  *)
(* createdAt are never changed.                                             *)
FirstMatch(timers, id, i) ==
    /\ timers[i].id = id
    /\ \A j \in 1 .. (i - 1) : timers[j].id # id

C17_Step ==
    last'.action = "command" =>
        /\ Len(board'.timers) = Len(board.timers)
        /\ \A i \in 1 .. Len(board.timers) :
              /\ ~FirstMatch(board.timers, last'.id, i) =>
                    board'.timers[i] = board.timers[i]
              /\ board'.timers[i].id = board.timers[i].id
              /\ board'.timers[i].label = board.timers[i].label
              /\ board'.timers[i].durationMs = board.timers[i].durationMs
              /\ board'.timers[i].createdAt = board.timers[i].createdAt

C17_CommandChangesOneTimer == [][C17_Step]_vars

\* a start has just set the second of two timers running and left the first alone
C17_Witness ==
    /\ HitCommand /\ last.command = "start" /\ last.idx = 2
    /\ Before.state = "idle"
    /\ Target.state = "running"
    /\ Timers[1].state = "paused"

(* C18 as stated: with command times that never go backwards, every timer  *)
(* has 0 <= elapsedMs <= durationMs, with elapsedMs = 0 when idle and      *)
(* elapsedMs < durationMs when paused or running.                           *)
ElapsedInRange(t) ==
    /\ 0 <= t.elapsedMs /\ t.elapsedMs <= t.durationMs
    /\ t.state = "idle" => t.elapsedMs = 0
    /\ t.state \in {"paused", "running"} => t.elapsedMs < t.durationMs

C18_ElapsedWithinDuration == \A i \in TimerIdx : ElapsedInRange(Timers[i])

\* the same for the timers whose durationMs is not negative
C18_ForNonNegativeDurations ==
    \A i \in TimerIdx : Timers[i].durationMs >= 0 => ElapsedInRange(Timers[i])

----------------------------------------------------------------------------
(* Requests *)

Key(r) == boardKey(reqs[r].boardId)
Done(r, method) == reqs[r].method = method /\ reqs[r].pc = "done"
StoredTimers(k) == IF Parses(store[k]) THEN JSONparse(store[k]).timers ELSE <<>>

(* C13: a GET for a boardId whose key holds no value, or a value that is   *)
(* not JSON, is answered with status 200 and the board {boardId, timers:   *)
(* []} of the requested boardId; no GET ends in a failure.                  *)
C13_GetOfNothingIsEmptyBoard ==
    \A r \in OneAtATime :
        /\ reqs[r].method = "GET" => reqs[r].pc # "failed"
        /\ Done(r, "GET") =>
              /\ reqs[r].response.status = 200
              /\ ~Parses(store[Key(r)]) =>
                    reqs[r].response.body.board =
                        [boardId |-> reqs[r].boardId, timers |-> <<>>]

\* a GET of b2 has been answered while the key of b2 holds a text that is not JSON
C13_Witness ==
    \E r \in OneAtATime :
        /\ Done(r, "GET")
        /\ reqs[r].boardId = "b2"
        /\ store[Key(r)] = GarbageRaw
        /\ reqs[r].response.status = 200

(* C19: a GET leaves the store as it is and answers with the stored board  *)
(* unchanged, so a stored running timer whose elapsed time has passed its  *)
(* durationMs is returned still running; only POSTs write.                  *)
C19_Step ==
    \A r \in OneAtATime :
        reqs[r].method = "GET" /\ reqs[r].pc # "free" =>
            /\ store' = store
            /\ reqs'[r].pc = "done" /\ Parses(store[Key(r)]) =>
                  reqs'[r].response.body = store[Key(r)]

C19_GetNeverWrites == [][C19_Step]_vars

\* a GET has returned a timer as running at a time when its elapsed time has
\* reached its durationMs, and the store still holds it as running
C19_Witness ==
    \E r \in OneAtATime :
        /\ Done(r, "GET")
        /\ Len(reqs[r].response.body.board.timers) = 1
        /\ LET timer == reqs[r].response.body.board.timers[1]
           IN /\ timer.state = "running"
              /\ Truthy(timer.startedAt)
              /\ timer.durationMs = Tick
              /\ effectiveElapsed(timer, clock) >= timer.durationMs
              /\ StoredTimers(Key(r))[1] = timer

(* C20: while a POST whose body is not JSON is in flight no step writes    *)
(* the store, and its only step is the failure of request.json(): it never *)
(* loads, applies or saves.                                                 *)
C20_Step ==
    \A r \in OneAtATime :
        reqs[r].method = "POST" /\ ~reqs[r].valid =>
            /\ store' = store
            /\ reqs'[r].pc \in {"failed", "free"}
            /\ reqs'[r].response = NoResponse

C20_BadBodyFailsBeforeLoad == [][C20_Step]_vars

\* a POST with a body that is not JSON has failed; the board it addressed
\* holds a timer and the other board holds a value too
C20_Witness ==
    \E r \in OneAtATime :
        /\ reqs[r].method = "POST" /\ ~reqs[r].valid
        /\ reqs[r].pc = "failed"
        /\ Len(StoredTimers(Key(r))) = 1
        /\ \E b \in BoardIds \ {reqs[r].boardId} : Parses(store[boardKey(b)])

(* C15: after saveBoard(boardId, board), loadBoard(boardId) returns a      *)
(* board equal to the saved one field for field, as long as nothing else   *)
(* is written in between.                                                   *)
C15_SaveThenLoad ==
    \A r \in OneAtATime :
        reqs[r].method = "POST" /\ reqs[r].saved =>
            loadBoard(store, reqs[r].boardId) = reqs[r].board

\* the round trip of a board whose numbers are all finite
C15_SaveThenLoadFinite ==
    \A r \in OneAtATime :
        /\ reqs[r].method = "POST" /\ reqs[r].saved
        /\ \A i \in 1 .. Len(reqs[r].board.timers) :
              /\ reqs[r].board.timers[i].durationMs # Infinity
              /\ reqs[r].board.timers[i].elapsedMs # Infinity
        => loadBoard(store, reqs[r].boardId) = reqs[r].board

(* C12: a POST is answered only after its save, with the board it saved;   *)
(* a GET after a POST response returns the board of that response; and,    *)
(* requests not overlapping, the stored board is the commands of the POSTs *)
(* so far applied in order to the empty board.                              *)
C12_SavedBeforeResponse ==
    \A r \in OneAtATime :
        Done(r, "POST") =>
            /\ reqs[r].saved
            /\ reqs[r].response.status = 200
            /\ reqs[r].response.body = store[Key(r)]

C12_GetAfterPost ==
    \A r \in OneAtATime :
        Done(r, "GET") /\ hist.posted[reqs[r].boardId] # AbsentRaw =>
            reqs[r].response.body = hist.posted[reqs[r].boardId]

C12_StoreIsCommandsInOrder ==
    \A b \in BoardIds :
        (\A r \in OneAtATime : reqs[r].pc \in {"free", "done"})
          /\ Parses(store[boardKey(b)]) =>
            store[boardKey(b)] = JSONstringify(hist.expected[b])

C12_PostsPersistInOrder ==
    /\ C12_SavedBeforeResponse
    /\ C12_GetAfterPost
    /\ C12_StoreIsCommandsInOrder

(* C11: no step of a POST looks at what the store holds when it saves: the *)
(* save puts the board the request computed from what it loaded, and the   *)
(* request is answered 200 with that board.  Two POSTs that both load      *)
(* before either saves therefore both succeed and the second save wipes    *)
(* the first.                                                               *)
C11_Step ==
    \A r \in InFlight :
        /\ reqs[r].pc = "save" /\ reqs'[r].pc = "respond" =>
              store' = [store EXCEPT ![Key(r)] = JSONstringify(reqs[r].board)]
        /\ reqs[r].pc = "respond" /\ reqs'[r].pc = "done" =>
              /\ reqs'[r].response.status = 200
              /\ reqs'[r].response.body = JSONstringify(reqs[r].board)

C11_LastSaveWins == [][C11_Step]_vars

\* the lost update: two creates on b1 have both been answered 200, each with
\* its own timer; applied in order they give two timers, the store holds one
C11_Witness ==
    /\ \A r \in InFlight :
          /\ Done(r, "POST")
          /\ ActionOf(reqs[r].body) = "create"
          /\ reqs[r].boardId = "b1"
          /\ reqs[r].response.status = 200
          /\ Len(reqs[r].board.timers) = 1
    /\ reqs[1].board.timers[1].id # reqs[2].board.timers[1].id
    /\ Len(hist.expected["b1"].timers) = 2
    /\ Len(StoredTimers(boardKey("b1"))) = 1

====
